---- MODULE Spec2Model ----
(***************************************************************************)
(* A model of the RightBoss candidate portal's client-side state logic:    *)
(*                                                                         *)
(*   - UserProvider (src/src/contexts/UserContext.tsx): the auth-event     *)
(*     queue, its drain (processNextAuthEvent), loadUserData and the       *)
(*     mount/unmount effect.                                               *)
(*   - ProfileProvider (src/unnamed/part_004, contexts/ProfileContext):    *)
(*     the profile aggregate with load/update/completeStep/save.           *)
(*   - UnifiedProfileExperience (src/unnamed/part_007): the section        *)
(*     orchestrator (handleNext, handleBack, handleSectionClick, ...).     *)
(*                                                                         *)
(* React semantics that the model keeps:                                   *)
(*   - a handler closes over the values of the render it was created in;   *)
(*     an async handler keeps that snapshot across its awaits;             *)
(*   - setX(v) replaces the state with v (no functional updates are used); *)
(*   - an `await` of a remote call suspends the handler; the remote result *)
(*     arrives in a later step, chosen nondeterministically;               *)
(*   - an `await` of an already settled promise resumes in a microtask,    *)
(*     before any other event is handled.                                  *)
(***************************************************************************)
EXTENDS Integers, Sequences, FiniteSets, TLC

\* ------------------------------------------------------------------ bounds
\* Auth notifications the identity provider emits in one run.
MaxAuthEvents == 1
\* Times the UserProvider effect is cleaned up and run again.
MaxRemounts == 1
\* Calls of refreshUserData in one run.
MaxRefresh == 1

\* ------------------------------------------------------------- identities
None == "none"
Uids == {"u1", "u2"}

\* ========================================================================
\* UserProvider (UserContext.tsx)
\* ========================================================================

VARIABLES
  up,        \* UserProvider refs and React state (one record, source names)
  tasks,     \* suspended async calls of UserProvider (initializeAuth, drains)
  subs,      \* live onAuthStateChange subscriptions (never unsubscribed)
  idp,       \* the identity provider's current session user, or None
  emitted,   \* history: number of auth notifications emitted so far
  remounts,  \* history: number of effect re-runs so far
  pushed,    \* history: number of events pushed on the queue so far
  refreshes, \* history: number of refreshUserData calls so far
  lastBegun  \* history: the queue position whose processing began last

authVars ==
  <<up, tasks, subs, idp, emitted, remounts, pushed, refreshes, lastBegun>>

VARIABLES
  remote,      \* the remote store: rows of profiles, user_preferences, user_onboarding
  profileData, \* ProfileProvider state: the profile aggregate, or Null
  isLoading,   \* ProfileProvider state: isLoading
  mode,        \* ThemeProvider state: "profile" or "onboarding"
  route,       \* the router's current path
  ux,          \* UnifiedProfileExperience: its useState values while mounted
  call,        \* the suspended async call of the profile code, or Idle
  op,          \* history: the handler called last
  log,         \* history: what the handler called last has done, in order
  reloads,     \* history: number of page reloads so far
  saves,       \* history: number of saveProfile calls so far
  load2        \* a second suspended call of loadProfileData, or Idle

wizVars ==
  <<remote, profileData, isLoading, mode, route, ux, call, op, log, reloads,
    saves, load2>>

VARIABLES
  tiered,    \* a TieredProfileSection: its props and what it has rendered
  signup     \* the SignUp page: its useState values and its running handleSubmit

pageVars == <<tiered, signup>>

vars == <<authVars, wizVars, pageVars>>

\* What a step of UserProvider leaves unchanged.
AuthFrame == UNCHANGED <<wizVars, pageVars>>

\* Role lists the provider can hold (UserContext.tsx:60, 180, 299, 352, 379).
NoRoles == "[]"
DefaultRole == "default:user"
AssignedRole == "role:user"
FetchedUser == "fetched:user"
FetchedAdmin == "fetched:admin"

AuthEventKinds == {"SIGNED_IN", "SIGNED_OUT", "TOKEN_REFRESHED"}

NoEvent == [event |-> None, session |-> None, n |-> 0]

\* useState/useRef initial values, UserContext.tsx:57-68.
UserProviderInit ==
  [ user |-> None, session |-> None, profile |-> None, roles |-> NoRoles,
    permissions |-> {}, isLoading |-> TRUE,
    loadingRef |-> FALSE, authInitializedRef |-> FALSE, mountedRef |-> TRUE,
    authEventQueueRef |-> <<>>, processingAuthEventRef |-> FALSE ]

\* safeSetState, UserContext.tsx:99-103.
safeSetState(s, f, v) == IF s.mountedRef THEN [s EXCEPT ![f] = v] ELSE s

\* resetStates, UserContext.tsx:87-96.
resetStates(s) ==
  IF ~s.mountedRef THEN s
  ELSE [s EXCEPT !.user = None, !.session = None, !.profile = None,
                 !.roles = NoRoles, !.permissions = {}, !.isLoading = FALSE,
                 !.loadingRef = FALSE]

\* The finally block of loadUserData, UserContext.tsx:319-327.
loadUserDataFinally(s) ==
  IF s.mountedRef THEN [s EXCEPT !.isLoading = FALSE, !.loadingRef = FALSE] ELSE s

\* loadUserData up to its first await, UserContext.tsx:151-196.
\* Result: the new state and where the call is suspended: "micro" when it
\* returned without a remote call (its caller's await resumes in a
\* microtask), "profile" when it awaits the profile fetch.
loadUserData(s, currentUser) ==
  IF ~s.mountedRef THEN [s |-> s, pc |-> "micro"]
  ELSE IF s.loadingRef THEN [s |-> s, pc |-> "micro"]
  ELSE LET s1 == safeSetState([s EXCEPT !.loadingRef = TRUE], "isLoading", TRUE) IN
       IF currentUser = None
       THEN [s |-> loadUserDataFinally(resetStates(s1)), pc |-> "micro"]
       ELSE [s |-> safeSetState(safeSetState(s1, "roles", DefaultRole),
                                "permissions", {"basic_access"}),
             pc |-> "profile"]

\* Replaces drainFinally: the flag is cleared and the rest of the queue is
\* left where it is.
drainFinallyStops(r) == [r EXCEPT !.s.processingAuthEventRef = FALSE]

RECURSIVE processNextAuthEvent(_)
RECURSIVE drainFinally(_)

\* processNextAuthEvent, UserContext.tsx:106-148, run until it suspends or
\* returns.  r.s is the provider state; the result adds the call that got
\* suspended (r.t, at most one) and the queue position whose processing
\* began last on the way (r.last, 0: none).
processNextAuthEvent(r) ==
  LET s == r.s IN
  IF ~s.mountedRef \/ s.processingAuthEventRef \/ s.authEventQueueRef = <<>>
  THEN r
  ELSE
    LET nextEvent == Head(s.authEventQueueRef)
        s1 == [s EXCEPT !.processingAuthEventRef = TRUE,
                        !.authEventQueueRef = Tail(@)]
        r1 == [r EXCEPT !.last = nextEvent.n]
    IN
    IF nextEvent.event = "SIGNED_IN" THEN
      LET s2 == safeSetState(safeSetState(s1, "session", nextEvent.session),
                             "user", nextEvent.session)
      IN IF nextEvent.session # None
         THEN LET l == loadUserData(s2, nextEvent.session) IN
              [r1 EXCEPT !.s = l.s,
                         !.t = Append(@, [kind |-> "drain", pc |-> l.pc,
                                          ev |-> nextEvent,
                                          uid |-> nextEvent.session,
                                          timer |-> FALSE,
                                          born |-> remounts])]
         ELSE drainFinally([r1 EXCEPT !.s = s2])
    ELSE IF nextEvent.event \in {"SIGNED_OUT", "USER_DELETED"} THEN
      drainFinally([r1 EXCEPT !.s = resetStates(s1)])
    ELSE IF nextEvent.event = "TOKEN_REFRESHED" THEN
      drainFinally([r1 EXCEPT !.s = safeSetState(s1, "session", nextEvent.session)])
    ELSE drainFinally([r1 EXCEPT !.s = s1])

\* The finally block of processNextAuthEvent, UserContext.tsx:138-144.
drainFinally(r) ==
  LET r1 == [r EXCEPT !.s.processingAuthEventRef = FALSE] IN
  IF r1.s.authEventQueueRef # <<>> THEN processNextAuthEvent(r1) ELSE r1

\* A call result with nothing suspended and nothing processed yet.
Run(s) == [s |-> s, t |-> <<>>, last |-> 0]

\* A suspended call of initializeAuth (awaiting getSession), UserContext.tsx:415.
\* born is history: the number of effect re-runs before the call was made.
InitTask == [kind |-> "init", pc |-> "getSession", ev |-> NoEvent, uid |-> None,
             timer |-> FALSE, born |-> 0]

\* The sequence q without its i-th element.
RemoveAt(q, i) == [j \in 1..(Len(q) - 1) |-> IF j < i THEN q[j] ELSE q[j + 1]]

\* Microtasks run before any other event: no call is waiting in one.
NoMicrotask == \A i \in DOMAIN tasks : tasks[i].pc # "micro"

\* The state after a step of UserProvider code that ended with result r,
\* the resumed call i (0: none) being removed from the suspended calls and
\* k events having been pushed.
Commit(r, i, k) ==
  /\ up' = r.s
  /\ tasks' = (IF i = 0 THEN tasks ELSE RemoveAt(tasks, i)) \o r.t
  /\ pushed' = pushed + k
  /\ lastBegun' = IF r.last > 0 THEN r.last ELSE lastBegun

\* The end of a loadUserData call made by suspended call t: its finally
\* block, and for a drain the rest of processNextAuthEvent.
loadUserDataReturns(s, t) ==
  IF t.kind = "drain"
  THEN drainFinally(Run(loadUserDataFinally(s)))
  ELSE Run(loadUserDataFinally(s))

\* A loadUserData call of suspended call t goes on to a further await.
Suspend(s, t, pc, timer) ==
  [Run(s) EXCEPT !.t = <<[t EXCEPT !.pc = pc, !.timer = timer]>>]

\* The roles fetch of loadUserData is issued, UserContext.tsx:257-273.
ToRolesFetch(s, t) ==
  IF ~s.mountedRef THEN loadUserDataReturns(s, t) ELSE Suspend(s, t, "roles", FALSE)

\* useEffect body, first run: UserContext.tsx:402-491.
InitUserProvider ==
  /\ up = UserProviderInit
  /\ tasks = <<InitTask>>
  /\ subs = 0
  /\ idp \in Uids \cup {None}
  /\ emitted = 0
  /\ remounts = 0
  /\ pushed = 0
  /\ refreshes = 0
  /\ lastBegun = 0

\* getSession resolves and initializeAuth runs to its end, UserContext.tsx:415-482.
GetSessionReturns(i) ==
  /\ NoMicrotask
  /\ tasks[i].kind = "init"
  /\ IF ~up.mountedRef
     THEN Commit(Run(up), i, 0) /\ UNCHANGED subs
     ELSE
       LET s1 == safeSetState(safeSetState(up, "session", idp), "user", idp)
           s2 == IF idp = None THEN safeSetState(s1, "isLoading", FALSE) ELSE s1
           ev == [event |-> "SIGNED_IN", session |-> idp, n |-> pushed + 1]
           r  == IF idp # None
                 THEN processNextAuthEvent(
                        Run([s2 EXCEPT !.authEventQueueRef = Append(@, ev)]))
                 ELSE Run(resetStates(s2))
       IN /\ Commit([r EXCEPT !.s.authInitializedRef = TRUE], i,
                    IF idp # None THEN 1 ELSE 0)
          /\ subs' = subs + 1
  /\ UNCHANGED <<idp, emitted, remounts, refreshes>>
  /\ AuthFrame

\* getSession rejects: the catch block of initializeAuth, UserContext.tsx:483-488.
GetSessionThrows(i) ==
  /\ NoMicrotask
  /\ tasks[i].kind = "init"
  /\ Commit(Run(IF up.mountedRef THEN resetStates(up) ELSE up), i, 0)
  /\ UNCHANGED <<subs, idp, emitted, remounts, refreshes>>
  /\ AuthFrame

RECURSIVE onAuthStateChange(_, _, _, _)
\* The onAuthStateChange callback, UserContext.tsx:448-475, called once for
\* each of the k live subscriptions; n is the position the next push gets.
onAuthStateChange(r, k, ev, n) ==
  IF k = 0 THEN r
  ELSE IF ~r.s.mountedRef THEN onAuthStateChange(r, k - 1, ev, n)
  ELSE
    LET s1 == IF ev.event = "SIGNED_IN"
              THEN safeSetState(safeSetState(r.s, "session", ev.session),
                                "user", ev.session)
              ELSE IF ev.event \in {"SIGNED_OUT", "USER_DELETED"}
              THEN resetStates(r.s)
              ELSE r.s
        s2 == [s1 EXCEPT !.authEventQueueRef = Append(@, [ev EXCEPT !.n = n])]
    IN onAuthStateChange(processNextAuthEvent([r EXCEPT !.s = s2]), k - 1, ev, n + 1)

\* The identity provider emits an auth notification to every subscription.
Notify(kind, u) ==
  /\ NoMicrotask
  /\ kind = "SIGNED_IN" => u # None
  /\ kind = "TOKEN_REFRESHED" => (u = idp /\ idp # None)
  /\ kind \in {"SIGNED_OUT", "USER_DELETED"} => (u = None /\ idp # None)
  /\ LET ev == [event |-> kind, session |-> u, n |-> 0]
         r  == onAuthStateChange(Run(up), subs, ev, pushed + 1)
     IN Commit(r, 0, IF up.mountedRef THEN subs ELSE 0)
  /\ idp' = u
  /\ emitted' = emitted + 1
  /\ UNCHANGED <<subs, remounts, refreshes>>
  /\ AuthFrame

\* An auth notification, as long as the run may have one more.
AuthNotify(kind, u) == emitted < MaxAuthEvents /\ Notify(kind, u)

\* What a resumed loadUserData call leaves unchanged.
LoadFrame == UNCHANGED <<subs, idp, emitted, remounts, refreshes>>

\* The profile fetch (raced against a 5 s timer) settles, UserContext.tsx:191-258.
ProfileFetchReturns(i, res) ==
  /\ NoMicrotask
  /\ tasks[i].pc = "profile"
  /\ LET t == tasks[i] IN
     Commit(IF res = "timeout" \/ ~up.mountedRef THEN loadUserDataReturns(up, t)
            ELSE IF res = "row" THEN ToRolesFetch(safeSetState(up, "profile", t.uid), t)
            ELSE IF res = "PGRST116" THEN Suspend(up, t, "insert", TRUE)
            ELSE ToRolesFetch(up, t),
            i, 0)
  /\ LoadFrame
  /\ AuthFrame

\* The insert of a new profile row returns, UserContext.tsx:236-250.
ProfileInsertReturns(i, ok) ==
  /\ NoMicrotask
  /\ tasks[i].pc = "insert"
  /\ LET t == tasks[i] IN
     Commit(IF ~up.mountedRef THEN loadUserDataReturns(up, t)
            ELSE IF ok THEN ToRolesFetch(safeSetState(up, "profile", t.uid), t)
            ELSE ToRolesFetch(up, t),
            i, 0)
  /\ LoadFrame
  /\ AuthFrame

\* The 10 s safety timer fires while the insert is outstanding, UserContext.tsx:205-211.
SafetyTimeout(i) ==
  /\ NoMicrotask
  /\ tasks[i].pc = "insert"
  /\ tasks[i].timer
  /\ up' = IF up.mountedRef /\ up.loadingRef
           THEN [up EXCEPT !.isLoading = FALSE, !.loadingRef = FALSE]
           ELSE up
  /\ tasks' = [tasks EXCEPT ![i].timer = FALSE]
  /\ UNCHANGED <<pushed, lastBegun>>
  /\ LoadFrame
  /\ AuthFrame

\* The user_roles fetch returns, UserContext.tsx:265-312, up to the first
\* await of ensureUserHasDefaultRole (UserContext.tsx:331-344).
RolesFetchReturns(i, res) ==
  /\ NoMicrotask
  /\ tasks[i].pc = "roles"
  /\ LET t == tasks[i]
         perms == IF res = FetchedAdmin THEN {"basic_access", "admin_access"}
                  ELSE {"basic_access"}
     IN
     Commit(IF ~up.mountedRef \/ res = "error" THEN loadUserDataReturns(up, t)
            ELSE IF res = "empty" THEN Suspend(up, t, "role_lookup", FALSE)
            ELSE loadUserDataReturns(
                   safeSetState(safeSetState(up, "roles", res), "permissions", perms), t),
            i, 0)
  /\ LoadFrame
  /\ AuthFrame

\* ensureUserHasDefaultRole: the lookup of the role named user returns,
\* UserContext.tsx:340-365.
RoleLookupReturns(i, ok) ==
  /\ NoMicrotask
  /\ tasks[i].pc = "role_lookup"
  /\ LET t == tasks[i] IN
     Commit(IF ~up.mountedRef THEN loadUserDataReturns(up, t)
            ELSE IF ~ok
            THEN loadUserDataReturns(
                   safeSetState(safeSetState(up, "roles", DefaultRole),
                                "permissions", {"basic_access"}), t)
            ELSE Suspend(up, t, "role_assign", FALSE),
            i, 0)
  /\ LoadFrame
  /\ AuthFrame

\* ensureUserHasDefaultRole: the user_roles insert returns (either way),
\* UserContext.tsx:367-380.
RoleAssignReturns(i) ==
  /\ NoMicrotask
  /\ tasks[i].pc = "role_assign"
  /\ LET t == tasks[i] IN
     Commit(IF ~up.mountedRef THEN loadUserDataReturns(up, t)
            ELSE loadUserDataReturns(
                   safeSetState(safeSetState(up, "roles", AssignedRole),
                                "permissions", {"basic_access"}), t),
            i, 0)
  /\ LoadFrame
  /\ AuthFrame

\* A call whose loadUserData returned without a remote call resumes,
\* UserContext.tsx:127 and 138-144.
MicrotaskResumes(i) ==
  /\ tasks[i].pc = "micro"
  /\ LET t == tasks[i] IN
     Commit(IF t.kind = "drain"
            THEN drainFinally(Run(up))
            ELSE Run(up),
            i, 0)
  /\ LoadFrame
  /\ AuthFrame

\* refreshUserData, UserContext.tsx:391-399, up to its await.
RefreshUserData ==
  /\ NoMicrotask
  /\ refreshes < MaxRefresh
  /\ ~up.loadingRef
  /\ LET l == loadUserData(safeSetState(up, "isLoading", TRUE), up.user) IN
     Commit([Run(l.s) EXCEPT !.t = <<[kind |-> "refresh", pc |-> l.pc,
                                      ev |-> NoEvent, uid |-> up.user,
                                      timer |-> FALSE, born |-> remounts]>>], 0, 0)
  /\ refreshes' = refreshes + 1
  /\ UNCHANGED <<subs, idp, emitted, remounts>>
  /\ AuthFrame

\* The effect's cleanup, UserContext.tsx:493-500.
Unmount ==
  /\ NoMicrotask
  /\ up.mountedRef
  /\ remounts < MaxRemounts
  /\ up' = [up EXCEPT !.mountedRef = FALSE, !.loadingRef = FALSE,
                      !.authInitializedRef = FALSE,
                      !.processingAuthEventRef = FALSE,
                      !.authEventQueueRef = <<>>]
  /\ UNCHANGED <<tasks, subs, idp, emitted, remounts, pushed, refreshes, lastBegun>>
  /\ AuthFrame

\* The effect runs again on the same instance (refs and state are kept:
\* this is the only case in which the assignment of UserContext.tsx:403
\* changes anything), UserContext.tsx:402-411 and 491.
Remount ==
  /\ ~up.mountedRef
  /\ up' = [up EXCEPT !.mountedRef = TRUE]
  /\ tasks' = IF up.authInitializedRef THEN tasks
              ELSE Append(tasks, [InitTask EXCEPT !.born = remounts + 1])
  /\ remounts' = remounts + 1
  /\ UNCHANGED <<subs, idp, emitted, pushed, refreshes, lastBegun>>
  /\ AuthFrame

NextAuth ==
  \/ \E i \in DOMAIN tasks : GetSessionReturns(i)
  \/ \E i \in DOMAIN tasks : GetSessionThrows(i)
  \/ \E kind \in AuthEventKinds, u \in Uids \cup {None} : AuthNotify(kind, u)
  \/ \E i \in DOMAIN tasks, res \in {"row", "PGRST116", "error", "timeout"} :
       ProfileFetchReturns(i, res)
  \/ \E i \in DOMAIN tasks, ok \in BOOLEAN : ProfileInsertReturns(i, ok)
  \/ \E i \in DOMAIN tasks : SafetyTimeout(i)
  \/ \E i \in DOMAIN tasks, res \in {"error", "empty", FetchedUser, FetchedAdmin} :
       RolesFetchReturns(i, res)
  \/ \E i \in DOMAIN tasks, ok \in BOOLEAN : RoleLookupReturns(i, ok)
  \/ \E i \in DOMAIN tasks : RoleAssignReturns(i)
  \/ \E i \in DOMAIN tasks : MicrotaskResumes(i)
  \/ RefreshUserData
  \/ Unmount
  \/ Remount

\* ========================================================================
\* ProfileProvider (part_004) and the remote store
\* ========================================================================

\* Page reloads in one run.
MaxReloads == 1
\* Calls of saveProfile in one run.
MaxSaves == 1

\* null / undefined of a record-valued field.
Null == [null |-> TRUE]

\* No async call of the profile code is suspended.
Idle == [fn |-> "idle"]

\* Text is a sequence of one-character strings.  The values a user types
\* into the name and email inputs, and the email of the signed-in account.
Names == {<<>>, <<"A", "d">>}
AuthEmail == <<"a", "@", "x", ".", "c">>
Emails == {<<"a", "x">>, AuthEmail}

\* The role cards offered by TieredRoleSelection.
RoleIds == {"frontend"}

\* list.includes(x)
includes(list, x) == \E k \in DOMAIN list : list[k] = x

\* list.filter(y => y !== x)
RECURSIVE without(_, _)
without(list, x) ==
  IF list = <<>> THEN <<>>
  ELSE IF Head(list) = x THEN without(Tail(list), x)
  ELSE <<Head(list)>> \o without(Tail(list), x)

\* Replaces handleNextReturns: handleNext without its early return.
handleNextNeverReturns(u) == FALSE

\* Replaces sectionClickAllowed: handleSectionClick without its condition.
sectionClickAlwaysAllowed(m, pd, sectionId) == TRUE

\* Replaces isOnboardingComplete: the explicit flag alone.
isOnboardingCompleteFlagOnly(loading, pd) ==
  IF loading \/ pd = Null THEN FALSE ELSE pd.onboarding_completed

\* isOnboardingComplete (useMemo), part_004:130-166.
isOnboardingComplete(loading, pd) ==
  IF loading \/ pd = Null THEN FALSE
  ELSE IF pd.onboarding_completed THEN TRUE
  ELSE Len(pd.selected_roles) > 0 /\ Len(pd.completed_steps) >= 2

\* combinedData of loadProfileData, part_004:246-271, from the fetched rows
\* of the user that getUser returned (Null: no row, or the fetch failed).
\* The account has no full_name metadata; its email is AuthEmail.
combinedData(user, profileRow, onboardingRow) ==
  [ id |-> user,
    full_name |-> IF profileRow # Null THEN profileRow.full_name ELSE <<>>,
    email |-> IF profileRow # Null /\ profileRow.email # <<>>
              THEN profileRow.email ELSE AuthEmail,
    selected_roles |-> IF onboardingRow # Null
                       THEN onboardingRow.selected_roles ELSE <<>>,
    onboarding_completed |-> IF onboardingRow # Null
                             THEN onboardingRow.completed ELSE FALSE,
    completed_steps |-> IF onboardingRow # Null
                        THEN onboardingRow.completed_steps ELSE <<>> ]

\* Replaces updateProfile: the spread the other way round, the old values
\* win over the new ones.
updateProfileKeepsOld(cur, closurePd, data) ==
  IF closurePd = Null THEN cur ELSE closurePd

\* updateProfile, part_004:291-336, as called from a render in which
\* profileData was closurePd: the new value of profileData (cur: its value
\* at the time of the call).  data is a record of the fields to replace.
updateProfile(cur, closurePd, data) ==
  IF closurePd = Null THEN cur
  ELSE [f \in DOMAIN closurePd |->
          IF f \in DOMAIN data THEN data[f] ELSE closurePd[f]]

\* Replaces completeStep: the step is appended whether the list has it or
\* not.
completeStepAlwaysAppends(cur, closurePd, step) ==
  IF closurePd = Null THEN cur
  ELSE [closurePd EXCEPT !.completed_steps = Append(@, step)]

\* completeStep, part_004:339-351, as called from a render in which
\* profileData was closurePd: the new value of profileData (cur: its value
\* at the time of the call).
completeStep(cur, closurePd, step) ==
  IF closurePd = Null THEN cur
  ELSE IF includes(closurePd.completed_steps, step) THEN cur
  ELSE [closurePd EXCEPT !.completed_steps = Append(@, step)]

\* The payloads of saveProfile, part_004:403-415 and 460-465, built from the
\* profileData and isOnboardingComplete of the render saveProfile came from.
profilePayload(pd) == [full_name |-> pd.full_name, email |-> pd.email]

onboardingPayload(pd, ioc) ==
  [ selected_roles |-> pd.selected_roles,
    completed_steps |-> pd.completed_steps,
    completed |-> ioc ]

\* A suspended call: fn is the outermost async function, pc the remote call
\* it awaits; pd and ioc are the profileData and isOnboardingComplete its
\* closures hold; step and section are the currentStep and activeSection of
\* the handler's render; stage tells a handleNext which of its saveProfile
\* calls is running; row is the profiles row a load has fetched.
Call(fn, pc, pd, ioc, step, stage) ==
  [fn |-> fn, pc |-> pc, pd |-> pd, ioc |-> ioc, step |-> step,
   stage |-> stage, row |-> Null, saveSuccessful |-> TRUE, user |-> None]

\* loadProfileData up to its first await, part_004:181-190.
loadProfileData == Call("loadProfileData", "getUser", Null, FALSE, 0, "load")

\* ========================================================================
\* UnifiedProfileExperience (part_007) under PrivateRoute
\* ========================================================================

\* profileSections, part_007:66-107.
profileSections ==
  << [id |-> "welcome", required |-> FALSE],
     [id |-> "personal", required |-> TRUE],
     [id |-> "roles", required |-> TRUE],
     [id |-> "preferences", required |-> FALSE],
     [id |-> "education", required |-> FALSE],
     [id |-> "resume", required |-> FALSE],
     [id |-> "complete", required |-> FALSE] >>

\* profileSections.length - 1
LastStep == Len(profileSections) - 1

\* profileSections[i] (steps count from 0)
SectionAt(i) == profileSections[i + 1]

\* profileSections.findIndex(s => s.id === id)
findIndex(id) == CHOOSE i \in 0..LastStep : SectionAt(i).id = id

\* The sections listed in the sidebar, part_007:598.
SidebarSections == {"personal", "roles", "preferences", "education", "resume"}

\* initialMode of the route's element, App.tsx:53-80.
initialMode(r) == IF r = "/onboarding" THEN "onboarding" ELSE "profile"

\* useState initial values, part_007:55-63, with the fullName and email
\* fields of TieredPersonalInfo (TieredResumeUpload.tsx:376-377).
uxInit ==
  [ mounted |-> TRUE, currentStep |-> 0, activeSection |-> "welcome",
    isSaving |-> FALSE, showWelcome |-> TRUE, isFormValid |-> FALSE,
    hasAttemptedContinue |-> FALSE, fullName |-> <<>>, email |-> <<>> ]

\* PrivateRoute renders the loading screen (PrivateRoute.tsx:20-23) or the
\* route is another page: the component is not mounted and has no state.
Unmounted == [uxInit EXCEPT !.mounted = FALSE]

\* setCurrentStep(i); setActiveSection(profileSections[i].id).  A different
\* section is a different component: the personal form's fields start anew.
goToStep(u, i) ==
  IF i = u.currentStep THEN [u EXCEPT !.activeSection = SectionAt(i).id]
  ELSE [u EXCEPT !.currentStep = i, !.activeSection = SectionAt(i).id,
                 !.fullName = <<>>, !.email = <<>>]

\* The mode effect, part_007:110-127 (forceMode is never passed).
modeEffect(r, ioc) ==
  IF initialMode(r) = "onboarding" \/ ~ioc THEN "onboarding" ELSE "profile"

\* nextIncompleteIndex, part_007:136-138 (-1: none).
nextIncompleteIndex(pd) ==
  LET open == {i \in 1..LastStep : ~includes(pd.completed_steps, SectionAt(i).id)}
  IN IF open = {} THEN -1 ELSE CHOOSE i \in open : \A j \in open : i <= j

\* The initial-step effect, part_007:130-156, run after a render with mode m
\* (profileSections is a new array in every render, so it runs every time).
initialStepEffect(u, m, pd) ==
  IF pd = Null \/ u.currentStep # 0 THEN u
  ELSE IF m = "onboarding" THEN
    IF includes(pd.completed_steps, "welcome") THEN
      IF nextIncompleteIndex(pd) # -1
      THEN [goToStep(u, nextIncompleteIndex(pd)) EXCEPT !.showWelcome = FALSE]
      ELSE u
    ELSE IF ~u.showWelcome THEN goToStep(u, 1)
    ELSE u
  ELSE goToStep(u, findIndex("personal"))

\* The condition of the redirect effect, part_007:159-170.
redirectEffect(m, ioc, u) ==
  m = "onboarding" /\ ioc /\ u.currentStep = LastStep

\* One render of a mounted component followed by its effects: st holds the
\* mode, the route and the component state.
Effects(st, pd) ==
  IF ~st.ux.mounted THEN st
  ELSE LET ioc == isOnboardingComplete(FALSE, pd) IN
       IF redirectEffect(st.mode, ioc, st.ux)
       THEN [mode |-> modeEffect(st.route, ioc), route |-> "/dashboard",
             ux |-> Unmounted]
       ELSE [mode |-> modeEffect(st.route, ioc), route |-> st.route,
             ux |-> initialStepEffect(st.ux, st.mode, pd)]

\* The routes of the component, App.tsx:53-71.
WizardRoutes == {"/onboarding", "/profile"}

\* Rendering until nothing changes any more.  u is the component state
\* before, Unmounted when PrivateRoute showed the loading screen.
Render(pd, loading, m, r, u) ==
  IF loading \/ r \notin WizardRoutes
  THEN [mode |-> m, route |-> r, ux |-> Unmounted]
  ELSE LET st0 == [mode |-> m, route |-> r,
                   ux |-> IF u.mounted THEN u ELSE uxInit]
       IN Effects(Effects(Effects(st0, pd), pd), pd)

\* canContinue, part_007:194-220.
canContinue(u) ==
  IF u.isSaving THEN FALSE
  ELSE IF SectionAt(u.currentStep).id \in {"welcome", "complete"} THEN TRUE
  ELSE IF SectionAt(u.currentStep).required THEN u.isFormValid
  ELSE TRUE

\* The early return of handleNext, part_007:226-228.
handleNextReturns(u) == ~canContinue(u)

\* handleSectionClick's condition, part_007:330.
sectionClickAllowed(m, pd, sectionId) ==
  m = "profile" \/ (pd # Null /\ includes(pd.completed_steps, sectionId))

\* s.trim()
RECURSIVE trimStart(_)
trimStart(s) ==
  IF s # <<>> /\ Head(s) = " " THEN trimStart(Tail(s)) ELSE s

RECURSIVE trimEnd(_)
trimEnd(s) ==
  IF s # <<>> /\ s[Len(s)] = " " THEN trimEnd(SubSeq(s, 1, Len(s) - 1)) ELSE s

trim(s) == trimEnd(trimStart(s))

\* /^[^\s@]+@[^\s@]+\.[^\s@]+$/.test(e), TieredResumeUpload.tsx:392.
emailRegex(e) ==
  \E i, j \in DOMAIN e :
    /\ 1 < i /\ i + 1 < j /\ j < Len(e)
    /\ e[i] = "@" /\ e[j] = "."
    /\ \A k \in DOMAIN e : (k # i) => e[k] \notin {" ", "@"}

\* validateAndNotify's result, TieredResumeUpload.tsx:390-394 (the phone
\* field stays empty, which is valid).
validateAndNotify(fullName, email) ==
  Len(trim(fullName)) >= 2 /\ emailRegex(email)

\* Whether renderCurrentSection hands onValidationChange to the section
\* component, part_007:560-565: it passes forceMode, hideTitle,
\* hideDescription and hideSaveButton only.
onValidationChangePassed == FALSE

\* initializedRef.current of TieredPersonalInfo: initializeFields calls the
\* undeclared setIsLoading (TieredResumeUpload.tsx:387, 428) before it could
\* set the ref, so the ref keeps its initial value.
initializedRef == FALSE

\* ------------------------------------------------------------------------
\* Steps of the profile code
\* ------------------------------------------------------------------------

\* What a step of the profile code leaves unchanged.
WizFrame == UNCHANGED <<authVars, load2, pageVars>>

\* The handler called last: its name and, for a handleNext that got past its
\* early return, the currentStep and activeSection of the render it was
\* called in.
Op(name, step, section) == [name |-> name, step |-> step, section |-> section]

\* The state after the ProfileProvider state became pd and loading and the
\* component state u: everything is rendered and the effects have run.
Show(pd, loading, u) ==
  LET st == Render(pd, loading, mode, route, u) IN
  /\ profileData' = pd
  /\ isLoading' = loading
  /\ mode' = st.mode
  /\ route' = st.route
  /\ ux' = st.ux

\* A handler got as far as a remote call inside saveProfile, which has set
\* isLoading (part_004:399): PrivateRoute replaces the page by the loading
\* screen and the component is unmounted.
Suspended(pd, c) ==
  /\ profileData' = pd
  /\ isLoading' = TRUE
  /\ ux' = Unmounted
  /\ call' = c
  /\ saves' = saves + 1
  /\ UNCHANGED <<mode, route, remote, reloads>>

\* supabase.auth.getUser() returns, part_004:190-195.
LoadGetUserReturns(hasUser) ==
  /\ call.fn = "loadProfileData" /\ call.pc = "getUser"
  /\ hasUser => idp # None
  /\ IF hasUser
     THEN /\ call' = [call EXCEPT !.pc = "profiles", !.user = idp]
          /\ UNCHANGED <<profileData, isLoading, mode, route, ux>>
     ELSE /\ call' = Idle
          /\ Show(profileData, FALSE, ux)
  /\ UNCHANGED <<remote, op, log, reloads, saves>>
  /\ WizFrame

\* The profiles row is fetched, part_004:200-210; PGRST116 (no row) is not
\* an error, any other error ends the load.
LoadProfilesReturns(ok) ==
  /\ call.fn = "loadProfileData" /\ call.pc = "profiles"
  /\ IF ok
     THEN /\ call' = [call EXCEPT !.pc = "user_preferences", !.row = remote.profiles]
          /\ UNCHANGED <<profileData, isLoading, mode, route, ux>>
     ELSE /\ call' = Idle
          /\ Show(profileData, FALSE, ux)
  /\ UNCHANGED <<remote, op, log, reloads, saves>>
  /\ WizFrame

\* The user_preferences row is fetched (an error is only logged),
\* part_004:213-221.
LoadPreferencesReturns ==
  /\ call.fn = "loadProfileData" /\ call.pc = "user_preferences"
  /\ call' = [call EXCEPT !.pc = "user_onboarding"]
  /\ UNCHANGED <<profileData, isLoading, mode, route, ux, remote, op, log, reloads, saves>>
  /\ WizFrame

\* The user_onboarding row is fetched (an error is only logged) and the
\* load ends, part_004:224-287.
LoadOnboardingReturns(ok) ==
  /\ call.fn = "loadProfileData" /\ call.pc = "user_onboarding"
  /\ call' = Idle
  /\ Show(combinedData(call.user, call.row, IF ok THEN remote.user_onboarding ELSE Null),
          FALSE, ux)
  /\ UNCHANGED <<remote, op, log, reloads, saves>>
  /\ WizFrame

\* handleNext from the marking of the section to the call of saveProfile,
\* part_007:259-297, in a handler whose render had profileData c.pd and
\* currentStep c.step; cur is profileData now.  Both updateProfile calls
\* spread the render's profileData.
handleNextMarks(cur, c) ==
  LET section == SectionAt(c.step).id
      add == ~includes(c.pd.completed_steps, section)
      pd1 == IF add
             THEN updateProfile(cur, c.pd,
                    [completed_steps |-> Append(c.pd.completed_steps, section)])
             ELSE cur
      log1 == IF add THEN <<"completeStep">> ELSE <<>>
  IN IF c.step = LastStep
     THEN [pd |-> updateProfile(pd1, c.pd, [onboarding_completed |-> TRUE]),
           log |-> log1 \o <<"onboarding_completed", "saveProfile">>,
           stage |-> "last"]
     ELSE [pd |-> pd1,
           log |-> log1 \o <<"setCurrentStep", "saveProfile">>,
           stage |-> "next"]

\* handleNext, part_007:223-311, up to its first remote call.
HandleNext ==
  /\ ux.mounted /\ call = Idle
  /\ (handleNextReturns(ux) \/ profileData = Null \/ saves < MaxSaves)
  /\ op' = IF handleNextReturns(ux) \/ profileData = Null
           THEN Op("handleNext", 0, "welcome")
           ELSE Op("handleNext", ux.currentStep, ux.activeSection)
  /\ LET ioc == isOnboardingComplete(isLoading, profileData)
         c == Call("handleNext", "profiles", profileData, ioc, ux.currentStep, "personal")
     IN
     IF handleNextReturns(ux) \/ profileData = Null
     THEN \* the early return, or the TypeError of line 260 caught at 304
          /\ ux' = [ux EXCEPT !.hasAttemptedContinue = TRUE]
          /\ log' = <<>>
          /\ UNCHANGED <<profileData, isLoading, mode, route, call, remote, reloads, saves>>
     ELSE IF ux.activeSection = "personal"
     THEN /\ Suspended(profileData, c)
          /\ log' = <<"saveProfile">>
     ELSE LET r == handleNextMarks(profileData, c) IN
          /\ Suspended(r.pd, [c EXCEPT !.stage = r.stage])
          /\ log' = r.log
  /\ WizFrame

\* handleSaveSection, part_007:340-353 (its button is rendered in profile
\* mode, part_007:754-759).
HandleSaveSection ==
  /\ ux.mounted /\ call = Idle /\ mode = "profile"
  /\ saves < MaxSaves
  /\ op' = Op("handleSaveSection", 0, "welcome")
  /\ log' = <<"saveProfile">>
  /\ IF profileData = Null
     THEN UNCHANGED <<profileData, isLoading, mode, route, ux, call, remote, reloads, saves>>
     ELSE Suspended(profileData,
            Call("handleSaveSection", "profiles", profileData,
                 isOnboardingComplete(isLoading, profileData),
                 ux.currentStep, "section"))
  /\ WizFrame

\* The callers of saveProfile: the two handlers of the orchestrator and a
\* consumer of the context that calls it directly (part_004:522-530).
Savers == {"handleNext", "handleSaveSection", "saveProfile"}

\* Replaces nextUpsert: a failed upsert ends the save.
nextUpsertAborting(pc, ok) ==
  IF ~ok THEN "verify"
  ELSE IF pc = "profiles" THEN "user_preferences"
  ELSE IF pc = "user_preferences" THEN "user_onboarding"
  ELSE "verify"

\* What saveProfile awaits after the upsert pc has returned, part_004:424-480:
\* an error only clears saveSuccessful ("Don't throw to allow partial saves").
nextUpsert(pc, ok) ==
  IF pc = "profiles" THEN "user_preferences"
  ELSE IF pc = "user_preferences" THEN "user_onboarding"
  ELSE "verify"

\* Replaces saveProfileResult: the save reports success whatever happened.
saveProfileResultAlwaysTrue(saveSuccessful) == "return true"

\* The return statement of saveProfile after its upserts, part_004:505-510.
saveProfileResult(saveSuccessful) ==
  IF saveSuccessful THEN "return true" ELSE "return false"

\* The result of an upsert, as the log has it.
Outcome(table, ok) == IF ok THEN table \o ": ok" ELSE table \o ": error"

\* saveProfile: the profiles upsert returns, part_004:424-434.
SaveProfilesReturns(ok) ==
  /\ call.fn \in Savers /\ call.pc = "profiles"
  /\ remote' = IF ok THEN [remote EXCEPT !.profiles = profilePayload(call.pd)]
               ELSE remote
  /\ call' = [call EXCEPT !.pc = nextUpsert("profiles", ok),
                          !.saveSuccessful = @ /\ ok]
  /\ log' = Append(log, Outcome("profiles", ok))
  /\ UNCHANGED <<profileData, isLoading, mode, route, ux, op, reloads, saves>>
  /\ WizFrame

\* saveProfile: the user_preferences upsert returns and the user_onboarding
\* payload is built and sent, part_004:447-469.
SavePreferencesReturns(ok) ==
  /\ call.fn \in Savers /\ call.pc = "user_preferences"
  /\ remote' = IF ok THEN [remote EXCEPT !.user_preferences = TRUE] ELSE remote
  /\ call' = [call EXCEPT !.pc = nextUpsert("user_preferences", ok),
                          !.saveSuccessful = @ /\ ok]
  /\ log' = log \o <<Outcome("user_preferences", ok),
                      IF call.ioc THEN "completed: true" ELSE "completed: false">>
  /\ UNCHANGED <<profileData, isLoading, mode, route, ux, op, reloads, saves>>
  /\ WizFrame

\* saveProfile: the user_onboarding upsert returns, part_004:467-477.
SaveOnboardingReturns(ok) ==
  /\ call.fn \in Savers /\ call.pc = "user_onboarding"
  /\ remote' = IF ok
               THEN [remote EXCEPT !.user_onboarding = onboardingPayload(call.pd, call.ioc)]
               ELSE remote
  /\ call' = [call EXCEPT !.pc = nextUpsert("user_onboarding", ok),
                          !.saveSuccessful = @ /\ ok]
  /\ log' = Append(log, Outcome("user_onboarding", ok))
  /\ UNCHANGED <<profileData, isLoading, mode, route, ux, op, reloads, saves>>
  /\ WizFrame

\* saveProfile: the verifying read returns, saveProfile returns and its
\* caller runs on, part_004:480-519 and part_007:251-310, 346-352.
SaveVerifyReturns ==
  /\ call.fn \in Savers /\ call.pc = "verify"
  /\ LET returned == Append(log, saveProfileResult(call.saveSuccessful)) IN
     IF call.stage = "personal"
     THEN \* the save of line 250 is done: isLoading goes false and, before
          \* anything is rendered, true again in the save of line 297 / 273
          LET r == handleNextMarks(profileData, call) IN
          /\ Suspended(r.pd, [call EXCEPT !.pc = "profiles", !.stage = r.stage,
                                          !.saveSuccessful = TRUE])
          /\ log' = returned \o r.log
          /\ UNCHANGED op
     ELSE IF call.stage = "last"
     THEN \* goToDashboard, part_007:284
          /\ call' = Idle
          /\ profileData' = profileData
          /\ isLoading' = FALSE
          /\ route' = "/dashboard"
          /\ ux' = Unmounted
          /\ log' = Append(returned, "goToDashboard")
          /\ op' = [op EXCEPT !.name = "handleNext.redirect"]
          /\ UNCHANGED <<mode, remote, reloads, saves>>
     ELSE \* the caller ends; a component unmounted by the save mounts anew
          /\ call' = Idle
          /\ Show(profileData, FALSE, Unmounted)
          /\ op' = IF op.name = call.fn
                   THEN [op EXCEPT !.name = call.fn \o ".end"]
                   ELSE op
          /\ log' = returned
          /\ UNCHANGED <<remote, reloads, saves>>
  /\ WizFrame

\* handleBack, part_007:313-319.
HandleBack ==
  /\ ux.mounted /\ call = Idle
  /\ op' = Op("handleBack", 0, "welcome")
  /\ log' = <<>>
  /\ Show(profileData, isLoading,
          IF ux.currentStep > 0 THEN goToStep(ux, ux.currentStep - 1) ELSE ux)
  /\ UNCHANGED <<call, remote, reloads, saves>>
  /\ WizFrame

\* handleSectionClick on the section's own button, part_007:321-338.
HandleSectionClick(sectionId) ==
  /\ ux.mounted /\ call = Idle
  /\ op' = Op("handleSectionClick", 0, "welcome")
  /\ log' = <<>>
  /\ Show(profileData, isLoading,
          IF sectionClickAllowed(mode, profileData, sectionId)
             /\ ux.activeSection # sectionId
          THEN goToStep(ux, findIndex(sectionId))
          ELSE ux)
  /\ UNCHANGED <<call, remote, reloads, saves>>
  /\ WizFrame

\* The Get Started button of the welcome screen, part_007:438-448 (the
\* screen is rendered under the condition of part_007:535).
GetStarted ==
  /\ ux.mounted /\ call = Idle
  /\ mode = "onboarding" /\ ux.showWelcome /\ ux.currentStep = 0
  /\ op' = Op("getStarted", 0, "welcome")
  /\ log' = <<>>
  /\ Show(IF profileData # Null /\ ~includes(profileData.completed_steps, "welcome")
          THEN updateProfile(profileData, profileData,
                 [completed_steps |-> Append(profileData.completed_steps, "welcome")])
          ELSE profileData,
          isLoading,
          goToStep([ux EXCEPT !.showWelcome = FALSE], 1))
  /\ UNCHANGED <<call, remote, reloads, saves>>
  /\ WizFrame

\* handleChange of TieredPersonalInfo for its fullName or email input,
\* TieredResumeUpload.tsx:508-589, with the validation effect (503-507) and
\* the notification of the parent (409-412, part_007:173-191).
HandleChange(field, value) ==
  /\ ux.mounted /\ call = Idle
  /\ ux.activeSection = "personal"
  /\ op' = Op("handleChange", 0, "welcome")
  /\ log' = <<>>
  /\ LET key == IF field = "fullName" THEN "full_name" ELSE "email"
         u1 == [ux EXCEPT ![field] = value]
         u2 == IF initializedRef /\ onValidationChangePassed
               THEN [u1 EXCEPT !.isFormValid = validateAndNotify(u1.fullName, u1.email)]
               ELSE u1
     IN Show(IF profileData # Null /\ profileData[key] # value
             THEN updateProfile(profileData, profileData, [f \in {key} |-> value])
             ELSE profileData,
             isLoading, u2)
  /\ UNCHANGED <<call, remote, reloads, saves>>
  /\ WizFrame

\* handleRoleToggle of TieredRoleSelection, TieredRoleSelection.tsx:35-49.
HandleRoleToggle(roleId) ==
  /\ ux.mounted /\ call = Idle
  /\ ux.activeSection = "roles"
  /\ op' = Op("handleRoleToggle", 0, "welcome")
  /\ log' = <<>>
  /\ Show(IF profileData = Null THEN profileData
          ELSE updateProfile(profileData, profileData,
                 [selected_roles |->
                    IF includes(profileData.selected_roles, roleId)
                    THEN without(profileData.selected_roles, roleId)
                    ELSE Append(profileData.selected_roles, roleId)]),
          isLoading, ux)
  /\ UNCHANGED <<call, remote, reloads, saves>>
  /\ WizFrame

\* The page is loaded again: every provider starts anew and ProfileProvider
\* loads on mount, part_004:118-119, 169-171 and auth.tsx:176-181.
Reload ==
  /\ call = Idle
  /\ route # "/dashboard"
  /\ reloads < MaxReloads
  /\ profileData' = Null
  /\ isLoading' = TRUE
  /\ mode' = "profile"
  /\ ux' = Unmounted
  /\ call' = loadProfileData
  /\ op' = Op("reload", 0, "welcome")
  /\ log' = <<>>
  /\ reloads' = reloads + 1
  /\ UNCHANGED <<remote, route, saves>>
  /\ WizFrame

\* ------------------------------------------------------------------------
\* The context's functions called by a consumer, and a second load
\* ------------------------------------------------------------------------

\* The fields a consumer hands to updateProfile.
StoreUpdates ==
  { [full_name |-> <<"A", "d">>],
    [selected_roles |-> <<"frontend">>],
    [completed_steps |-> <<"welcome", "personal">>],
    [onboarding_completed |-> TRUE] }

\* A consumer calls updateProfile(data) of the current render,
\* part_004:291-336.
StoreUpdate(data) ==
  /\ profileData' = updateProfile(profileData, profileData, data)
  /\ op' = Op("updateProfile", 0, "welcome")
  /\ UNCHANGED <<isLoading, mode, route, ux, call, remote, log, reloads, saves>>
  /\ WizFrame

\* The pairs of updates a handler makes one directly after the other: the
\* one of handleNext on the last step, part_007:259-270, and one of two
\* form fields.
StoreUpdatePairs ==
  { <<[completed_steps |-> <<"welcome", "personal">>], [onboarding_completed |-> TRUE]>>,
    <<[full_name |-> <<"A", "d">>], [selected_roles |-> <<"frontend">>]>> }

\* A consumer's handler calls updateProfile(d1) and then updateProfile(d2):
\* both calls are those of the render the handler came from, part_004:291
\* and 308-311.
StoreUpdateTwice(d1, d2) ==
  /\ profileData' = updateProfile(updateProfile(profileData, profileData, d1),
                                  profileData, d2)
  /\ op' = Op("updateProfile.twice", 0, "welcome")
  /\ UNCHANGED <<isLoading, mode, route, ux, call, remote, log, reloads, saves>>
  /\ WizFrame

\* The section ids a consumer hands to completeStep.
StoreSteps == {"roles"}

\* A consumer's handler calls completeStep(step), once or twice in a row,
\* part_004:339-351; called again in a later render, it is this action
\* again.
StoreCompleteStep(step, twice) ==
  /\ profileData' = IF twice
                    THEN completeStep(completeStep(profileData, profileData, step),
                                      profileData, step)
                    ELSE completeStep(profileData, profileData, step)
  /\ op' = Op(IF twice THEN "completeStep.twice" ELSE "completeStep", 0, "welcome")
  /\ UNCHANGED <<isLoading, mode, route, ux, call, remote, log, reloads, saves>>
  /\ WizFrame

\* A consumer calls saveProfile() of the current render, part_004:379-400:
\* without an aggregate it returns at once (380-383).
StoreSave ==
  /\ call = Idle
  /\ profileData = Null \/ saves < MaxSaves
  /\ op' = Op("saveProfile", 0, "welcome")
  /\ IF profileData = Null
     THEN /\ log' = <<"saveProfile", "return undefined">>
          /\ UNCHANGED <<profileData, isLoading, mode, route, ux, call, remote,
                         reloads, saves>>
     ELSE /\ log' = <<"saveProfile">>
          /\ Suspended(profileData,
               Call("saveProfile", "profiles", profileData,
                    isOnboardingComplete(isLoading, profileData), 0, "section"))
  /\ WizFrame

\* What a step of the second load leaves unchanged.
Load2Frame ==
  UNCHANGED <<authVars, remote, mode, route, ux, call, log, saves, pageVars>>

\* loadProfileData is called once more, part_004:181-190; it has no guard
\* against a call that is still running.  afterSave tells whether it is
\* called right after a saveProfile has returned, overlaps whether it is
\* called while the load of the mount effect is running.
LoadAgain ==
  /\ load2 = Idle
  /\ reloads < MaxReloads
  /\ load2' = [fn |-> "loadProfileData", pc |-> "getUser", row |-> Null,
               user |-> None,
               afterSave |-> op.name = "saveProfile.end",
               overlaps |-> call # Idle /\ call.fn = "loadProfileData"]
  /\ isLoading' = TRUE
  /\ op' = Op("loadProfileData", 0, "welcome")
  /\ reloads' = reloads + 1
  /\ UNCHANGED profileData
  /\ Load2Frame

\* The second load: supabase.auth.getUser() returns, part_004:190-195.
Load2GetUserReturns(hasUser) ==
  /\ load2 # Idle /\ load2.pc = "getUser"
  /\ hasUser => idp # None
  /\ IF hasUser
     THEN /\ load2' = [load2 EXCEPT !.pc = "profiles", !.user = idp]
          /\ UNCHANGED <<isLoading, op>>
     ELSE /\ load2' = Idle
          /\ isLoading' = FALSE
          /\ op' = [op EXCEPT !.name = "loadProfileData.failed"]
  /\ UNCHANGED <<profileData, reloads>>
  /\ Load2Frame

\* The second load: the profiles row is fetched, part_004:200-210.
Load2ProfilesReturns(ok) ==
  /\ load2 # Idle /\ load2.pc = "profiles"
  /\ IF ok
     THEN /\ load2' = [load2 EXCEPT !.pc = "user_preferences", !.row = remote.profiles]
          /\ UNCHANGED <<isLoading, op>>
     ELSE /\ load2' = Idle
          /\ isLoading' = FALSE
          /\ op' = [op EXCEPT !.name = "loadProfileData.failed"]
  /\ UNCHANGED <<profileData, reloads>>
  /\ Load2Frame

\* The second load: the user_preferences row is fetched, part_004:213-221.
Load2PreferencesReturns ==
  /\ load2 # Idle /\ load2.pc = "user_preferences"
  /\ load2' = [load2 EXCEPT !.pc = "user_onboarding"]
  /\ UNCHANGED <<profileData, isLoading, op, reloads>>
  /\ Load2Frame

\* The second load: the user_onboarding row is fetched and the load ends,
\* part_004:224-287.
Load2OnboardingReturns(ok) ==
  /\ load2 # Idle /\ load2.pc = "user_onboarding"
  /\ load2' = Idle
  /\ profileData' = combinedData(load2.user, load2.row,
                                 IF ok THEN remote.user_onboarding ELSE Null)
  /\ isLoading' = FALSE
  /\ op' = [op EXCEPT !.name = IF ok THEN "loadProfileData.end"
                               ELSE "loadProfileData.failed"]
  /\ UNCHANGED reloads
  /\ Load2Frame

\* ========================================================================
\* TieredProfileSection (components/profile/sections/TieredResumeUpload.tsx)
\* ========================================================================

\* Fields of one section in one run.
MaxFields == 3

\* enum FieldTier, TieredResumeUpload.tsx:203-207.
ESSENTIAL == 1
IMPORTANT == 2
COMPREHENSIVE == 3
\* A tier that is no member of the enum, and the tier of a field object
\* that has no tier property (undefined).
UnknownTier == 4
UndefinedTier == 0

Tiers == {ESSENTIAL, IMPORTANT, COMPREHENSIVE, UnknownTier, UndefinedTier}

\* Replaces isVisible: onboarding hides only what is COMPREHENSIVE.
isVisibleUnlessComprehensive(tier, currentMode) ==
  IF currentMode = "onboarding" THEN tier # COMPREHENSIVE ELSE TRUE

\* The filter predicate of visibleFields, TieredResumeUpload.tsx:269-277:
\* `field.tier === FieldTier.ESSENTIAL` is false for undefined and for any
\* other value, and raises nothing.
isVisible(tier, currentMode) ==
  IF currentMode = "onboarding" THEN tier = ESSENTIAL ELSE TRUE

\* fields.filter(...), TieredResumeUpload.tsx:269-277: the positions of the
\* fields that are rendered (TieredResumeUpload.tsx:303-307).
visibleFields(fields, currentMode) ==
  {k \in DOMAIN fields : isVisible(fields[k], currentMode)}

\* forceMode || mode, TieredResumeUpload.tsx:245-249.
currentModeOf(forceMode, themeMode) ==
  IF forceMode # None THEN forceMode ELSE themeMode

\* No section is shown.
NoSection ==
  [fields |-> <<>>, forceMode |-> None, themeMode |-> "profile",
   rendered |-> FALSE, visible |-> {}]

\* The sections a parent can show: a list of fields given by their tiers,
\* with or without forceMode, under either mode of ThemeProvider.
Sections ==
  UNION {[fields : [1..n -> Tiers], forceMode : {None, "onboarding", "profile"},
          themeMode : {"onboarding", "profile"}, rendered : {FALSE},
          visible : {{}}] : n \in 0..MaxFields}

\* TieredProfileSection renders, TieredResumeUpload.tsx:233-307.
RenderSection ==
  /\ tiered' = [tiered EXCEPT
                  !.rendered = TRUE,
                  !.visible = visibleFields(tiered.fields,
                                currentModeOf(tiered.forceMode, tiered.themeMode))]
  /\ UNCHANGED <<authVars, wizVars, signup>>

\* ThemeProvider's setMode is called (auth.tsx:178-190) and the section
\* renders again.
SetThemeMode(m) ==
  /\ tiered.rendered
  /\ tiered' = [tiered EXCEPT
                  !.themeMode = m,
                  !.visible = visibleFields(tiered.fields,
                                currentModeOf(tiered.forceMode, m))]
  /\ UNCHANGED <<authVars, wizVars, signup>>

\* ========================================================================
\* SignUp (pages/Dashboard.tsx:744-1010)
\* ========================================================================

\* The SignUp page is not shown.
NoSignUp == [shown |-> FALSE]

\* signUp requests made for one click in one run.
MaxRequests == 5

\* The limit of `retryCount < 2`, Dashboard.tsx:908.
RetryLimit == 2

\* `retryCount < 2` in handleSubmit, Dashboard.tsx:908: retryCount is the
\* const of the render the handler was created in.
retryAllowed(closureCount, stateCount) == closureCount < RetryLimit

\* useState initial values of SignUp, Dashboard.tsx:750-762, after the
\* connection test of the mount effect (764-803) has set connectionStatus.
\* pc, closure and requests belong to the running handleSubmit: where it
\* is suspended, the retryCount and connectionStatus of the render it was
\* created in, and (history) the signUp requests made since the click.
SignUpInit(connectionStatus) ==
  [ shown |-> TRUE, error |-> None, loading |-> FALSE, emailSent |-> FALSE,
    lastSignUpAttempt |-> FALSE, connectionStatus |-> connectionStatus,
    retryCount |-> 0, left |-> FALSE,
    pc |-> "idle", closure |-> [retryCount |-> 0, connectionStatus |-> "null"],
    requests |-> 0 ]

\* What a step of the SignUp page leaves unchanged.
SignUpFrame == UNCHANGED <<authVars, wizVars, tiered>>

\* handleSubmit from `setLoading(true)` to its first await,
\* Dashboard.tsx:871-892, run by the handler whose closure is c.
submitBegins(s, c) ==
  [s EXCEPT !.loading = TRUE, !.lastSignUpAttempt = TRUE,
            !.pc = IF c.connectionStatus = "false" THEN "reconnect" ELSE "signUp",
            !.requests = IF c.connectionStatus = "false" THEN @ ELSE @ + 1]

\* The form is submitted: handleSubmit of the current render,
\* Dashboard.tsx:852-892.  The button is disabled while loading (1194).
Submit(canAttempt, passwordOk) ==
  /\ signup.shown /\ ~signup.left /\ ~signup.emailSent
  /\ signup.pc = "idle" /\ ~signup.loading
  /\ ~signup.lastSignUpAttempt => canAttempt
  /\ LET c == [retryCount |-> signup.retryCount,
               connectionStatus |-> signup.connectionStatus]
         s0 == [signup EXCEPT !.error = None, !.closure = c, !.requests = 0]
     IN signup' = IF ~canAttempt THEN [s0 EXCEPT !.error = "wait"]
                  ELSE IF ~passwordOk THEN [s0 EXCEPT !.error = "password"]
                  ELSE submitBegins(s0, c)
  /\ SignUpFrame

\* testSupabaseConnection returns, Dashboard.tsx:877-884.
ReconnectReturns(reconnected) ==
  /\ signup.shown /\ signup.pc = "reconnect"
  /\ signup' = IF reconnected
               THEN [signup EXCEPT !.connectionStatus = "true", !.pc = "signUp",
                                   !.requests = @ + 1]
               ELSE [signup EXCEPT !.connectionStatus = "false", !.pc = "idle",
                                   !.error = "connect", !.loading = FALSE]
  /\ SignUpFrame

\* supabase.auth.signUp returns, Dashboard.tsx:891-983.
SignUpReturns(res) ==
  /\ signup.shown /\ signup.pc = "signUp"
  /\ signup' =
       IF res = "server error"
       THEN IF retryAllowed(signup.closure.retryCount, signup.retryCount)
            THEN \* setRetryCount(prev => prev + 1) and the 1.5 s delay
                 [signup EXCEPT !.retryCount = @ + 1, !.pc = "delay"]
            ELSE [signup EXCEPT !.error = "server issues", !.retryCount = 0,
                                !.loading = FALSE, !.pc = "idle"]
       ELSE IF res = "error"
       THEN [signup EXCEPT !.error = "signup error", !.retryCount = 0,
                           !.loading = FALSE, !.pc = "idle"]
       ELSE IF res = "confirmation pending"
       THEN [signup EXCEPT !.emailSent = TRUE, !.retryCount = 0,
                           !.loading = FALSE, !.pc = "idle"]
       ELSE \* goToOnboarding
            [signup EXCEPT !.left = TRUE, !.loading = FALSE, !.pc = "idle"]
  /\ SignUpFrame

\* The delay before a retry ends, Dashboard.tsx:912-916: handleSubmit(e) of
\* the same render runs to its first await (canAttemptSignUp and formData
\* are those that let the click pass), then the caller returns and its
\* finally block clears loading (980-983).
DelayEnds ==
  /\ signup.shown /\ signup.pc = "delay"
  /\ signup.requests < MaxRequests
  /\ signup' = [submitBegins([signup EXCEPT !.error = None], signup.closure)
                  EXCEPT !.loading = FALSE]
  /\ SignUpFrame

\* Neither page part is shown.
PagesAtRest == tiered = NoSection /\ signup = NoSignUp

\* ========================================================================
\* PrivateRoute, Dashboard and the sign-in page under the providers
\* ========================================================================

\* Sign-ins and sign-outs in one run of a session.
MaxSessionEvents == 2

\* The routes App.tsx wraps in PrivateRoute, App.tsx:53-98.
ProtectedRoutes == WizardRoutes \cup {"/dashboard"}

\* What PrivateRoute renders, PrivateRoute.tsx:15-33.
PrivateRoute(userLoading, profileLoading, user) ==
  IF userLoading \/ profileLoading THEN "LoadingScreen"
  ELSE IF user = None THEN "Navigate"
  ELSE "children"

\* What Dashboard renders, Dashboard.tsx:142-216 (content: line 218 on).
Dashboard(userLoading, profileLoading, redirectingToOnboarding, ioc) ==
  IF userLoading \/ profileLoading THEN "Loading your dashboard..."
  ELSE IF redirectingToOnboarding THEN "Redirecting to onboarding..."
  ELSE IF ~ioc THEN "Checking your profile status..."
  ELSE "content"

\* What the page shows at the current route, from the values of the two
\* contexts as they are now.  redirectingToOnboarding is set only in the
\* timer callback that leaves the page (Dashboard.tsx:124-129).
Screen ==
  IF route \notin ProtectedRoutes THEN "public"
  ELSE LET pr == PrivateRoute(up.isLoading, isLoading, up.user) IN
       IF pr # "children" THEN pr
       ELSE IF route = "/dashboard"
       THEN Dashboard(up.isLoading, isLoading, FALSE,
                      isOnboardingComplete(isLoading, profileData))
       ELSE "children"

\* What a navigation leaves unchanged.
RouteFrame ==
  UNCHANGED <<authVars, pageVars, load2, remote, profileData, isLoading, call,
              op, log, reloads, saves>>

\* <Navigate to="/signin" replace />, PrivateRoute.tsx:26-29.
PrivateRouteNavigates ==
  /\ Screen = "Navigate"
  /\ route' = "/signin"
  /\ ux' = Unmounted
  /\ UNCHANGED mode
  /\ RouteFrame

\* The redirect effect of the sign-in page, part_007:841-847.
SignInRedirects ==
  /\ route = "/signin"
  /\ ~up.isLoading /\ up.user # None
  /\ route' = "/dashboard"
  /\ UNCHANGED <<mode, ux>>
  /\ RouteFrame

\* The timer of the Dashboard effect fires: goToOnboarding,
\* Dashboard.tsx:119-129 and useNavigation.ts:49-51; the effect's cleanup
\* clears the timer when the component is unmounted or a value it depends
\* on changes.
RedirectTimerFires ==
  /\ Screen = "Checking your profile status..."
  /\ LET st == Render(profileData, isLoading, mode, "/onboarding", Unmounted) IN
     /\ mode' = st.mode
     /\ route' = st.route
     /\ ux' = st.ux
  /\ RouteFrame

\* A sign-in or a sign-out of the session.
SessionNotify(kind, u) ==
  /\ emitted < MaxSessionEvents
  /\ Notify(kind, u)

\* ========================================================================
\* Specifications
\* ========================================================================

\* The rows the remote store can hold for the account when the page is
\* loaded.  The store outlives the page (earlier sessions, other clients):
\* completed_steps is a run of sections from the first on (none, up to the
\* personal section, up to the education section, or all before the
\* terminal one), and completed is set only with the personal and roles
\* sections among them.  The profiles row is written by the page itself.
InitialSteps ==
  {[k \in 1..n |-> profileSections[k].id] : n \in {0, 2, LastStep - 1, LastStep}}

InitialOnboardingRows ==
  {Null} \cup
  {row \in [selected_roles : {<<>>} \cup {<<r>> : r \in RoleIds},
            completed_steps : InitialSteps,
            completed : BOOLEAN] :
     row.completed => /\ includes(row.completed_steps, "personal")
                      /\ includes(row.completed_steps, "roles")}

InitialProfileRows == {Null}

\* No handler has been called yet.
NoOp == Op("none", 0, "welcome")

\* UserProvider with account u1 signed in and its data loaded: the state in
\* which PrivateRoute shows the page (PrivateRoute.tsx:20-33).
SignedIn ==
  /\ up = [UserProviderInit EXCEPT !.user = "u1", !.session = "u1",
                                   !.profile = "u1", !.roles = FetchedUser,
                                   !.permissions = {"basic_access"},
                                   !.isLoading = FALSE,
                                   !.authInitializedRef = TRUE]
  /\ tasks = <<>>
  /\ subs = 1
  /\ idp = "u1"
  /\ emitted = 0
  /\ remounts = 0
  /\ pushed = 1
  /\ refreshes = 0
  /\ lastBegun = 1

\* The profile code before anyone is signed in: nothing loaded, no page of
\* the wizard shown.
ProfileAtRest ==
  /\ remote = [profiles |-> Null, user_preferences |-> FALSE, user_onboarding |-> Null]
  /\ profileData = Null
  /\ isLoading = TRUE
  /\ mode = "profile"
  /\ route = "/signin"
  /\ ux = Unmounted
  /\ call = Idle
  /\ op = NoOp
  /\ log = <<>>
  /\ reloads = 0
  /\ saves = 0
  /\ load2 = Idle
  /\ PagesAtRest

InitAuth == InitUserProvider /\ ProfileAtRest

SpecAuth == InitAuth /\ [][NextAuth]_vars

\* The page is opened on /onboarding or /profile by the signed-in account:
\* the providers mount and ProfileProvider starts its load, part_004:118-119
\* and 169-171; ThemeProvider starts in profile mode, auth.tsx:176-181.
InitWiz ==
  /\ SignedIn
  /\ remote \in [profiles : InitialProfileRows, user_preferences : {FALSE},
                 user_onboarding : InitialOnboardingRows]
  /\ profileData = Null
  /\ isLoading = TRUE
  /\ mode = "profile"
  /\ route \in {"/onboarding", "/profile"}
  /\ ux = Unmounted
  /\ call = loadProfileData
  /\ op = NoOp
  /\ log = <<>>
  /\ reloads = 0
  /\ saves = 0
  /\ load2 = Idle
  /\ PagesAtRest

NextWiz ==
  \/ \E hasUser \in BOOLEAN : LoadGetUserReturns(hasUser)
  \/ \E ok \in BOOLEAN : LoadProfilesReturns(ok)
  \/ LoadPreferencesReturns
  \/ \E ok \in BOOLEAN : LoadOnboardingReturns(ok)
  \/ HandleNext
  \/ HandleSaveSection
  \/ \E ok \in BOOLEAN : SaveProfilesReturns(ok)
  \/ \E ok \in BOOLEAN : SavePreferencesReturns(ok)
  \/ \E ok \in BOOLEAN : SaveOnboardingReturns(ok)
  \/ SaveVerifyReturns
  \/ HandleBack
  \/ \E sectionId \in SidebarSections : HandleSectionClick(sectionId)
  \/ GetStarted
  \/ \E value \in Names : HandleChange("fullName", value)
  \/ \E value \in Emails : HandleChange("email", value)
  \/ \E roleId \in RoleIds : HandleRoleToggle(roleId)
  \/ Reload

SpecWiz == InitWiz /\ [][NextWiz]_vars

\* Every remote call of a load or a save returns.
RemoteReturns ==
  \/ \E hasUser \in BOOLEAN : LoadGetUserReturns(hasUser)
  \/ \E ok \in BOOLEAN : LoadProfilesReturns(ok)
  \/ LoadPreferencesReturns
  \/ \E ok \in BOOLEAN : LoadOnboardingReturns(ok)
  \/ \E ok \in BOOLEAN : SaveProfilesReturns(ok)
  \/ \E ok \in BOOLEAN : SavePreferencesReturns(ok)
  \/ \E ok \in BOOLEAN : SaveOnboardingReturns(ok)
  \/ SaveVerifyReturns

\* The same with every remote call returning and a user who presses
\* "Get Started" and "Continue" for as long as pressing changes anything.
SpecWizFair ==
  /\ SpecWiz
  /\ WF_vars(RemoteReturns)
  /\ WF_vars(GetStarted)
  /\ WF_vars(HandleNext)

\* A page other than the wizard's is opened by the signed-in account (the
\* dashboard, whose components read the context): ProfileProvider mounts
\* and starts its load, part_004:118-119 and 169-171.
InitStore ==
  /\ SignedIn
  /\ remote \in [profiles : InitialProfileRows, user_preferences : {FALSE},
                 user_onboarding : InitialOnboardingRows]
  /\ profileData = Null
  /\ isLoading = TRUE
  /\ mode = "profile"
  /\ route = "/dashboard"
  /\ ux = Unmounted
  /\ call = loadProfileData
  /\ op = NoOp
  /\ log = <<>>
  /\ reloads = 0
  /\ saves = 0
  /\ load2 = Idle
  /\ PagesAtRest

NextStore ==
  \/ \E hasUser \in BOOLEAN : LoadGetUserReturns(hasUser)
  \/ \E ok \in BOOLEAN : LoadProfilesReturns(ok)
  \/ LoadPreferencesReturns
  \/ \E ok \in BOOLEAN : LoadOnboardingReturns(ok)
  \/ \E data \in StoreUpdates : StoreUpdate(data)
  \/ StoreSave
  \/ \E ok \in BOOLEAN : SaveProfilesReturns(ok)
  \/ \E ok \in BOOLEAN : SavePreferencesReturns(ok)
  \/ \E ok \in BOOLEAN : SaveOnboardingReturns(ok)
  \/ SaveVerifyReturns
  \/ LoadAgain
  \/ \E hasUser \in BOOLEAN : Load2GetUserReturns(hasUser)
  \/ \E ok \in BOOLEAN : Load2ProfilesReturns(ok)
  \/ Load2PreferencesReturns
  \/ \E ok \in BOOLEAN : Load2OnboardingReturns(ok)

SpecStore == InitStore /\ [][NextStore]_vars

\* The local functions of the context called by a consumer while and after
\* the provider loads: no save is made.
NextCalls ==
  \/ \E hasUser \in BOOLEAN : LoadGetUserReturns(hasUser)
  \/ \E ok \in BOOLEAN : LoadProfilesReturns(ok)
  \/ LoadPreferencesReturns
  \/ \E ok \in BOOLEAN : LoadOnboardingReturns(ok)
  \/ \E data \in StoreUpdates : StoreUpdate(data)
  \/ \E p \in StoreUpdatePairs : StoreUpdateTwice(p[1], p[2])
  \/ \E step \in StoreSteps, twice \in BOOLEAN : StoreCompleteStep(step, twice)

SpecCalls == InitStore /\ [][NextCalls]_vars

\* A TieredProfileSection with any list of fields, in any mode.
InitTier ==
  /\ InitUserProvider
  /\ remote = [profiles |-> Null, user_preferences |-> FALSE, user_onboarding |-> Null]
  /\ profileData = Null
  /\ isLoading = TRUE
  /\ mode = "profile"
  /\ route = "/signin"
  /\ ux = Unmounted
  /\ call = Idle
  /\ op = NoOp
  /\ log = <<>>
  /\ reloads = 0
  /\ saves = 0
  /\ load2 = Idle
  /\ up.user = None /\ idp = None
  /\ tiered \in Sections
  /\ signup = NoSignUp

NextTier ==
  \/ RenderSection
  \/ \E m \in {"onboarding", "profile"} : SetThemeMode(m)

SpecTier == InitTier /\ [][NextTier]_vars

\* The SignUp page is opened by a visitor who is not signed in.
InitSignUp ==
  /\ InitUserProvider
  /\ idp = None
  /\ remote = [profiles |-> Null, user_preferences |-> FALSE, user_onboarding |-> Null]
  /\ profileData = Null
  /\ isLoading = TRUE
  /\ mode = "profile"
  /\ route = "/signup"
  /\ ux = Unmounted
  /\ call = Idle
  /\ op = NoOp
  /\ log = <<>>
  /\ reloads = 0
  /\ saves = 0
  /\ load2 = Idle
  /\ tiered = NoSection
  /\ signup \in {SignUpInit(cs) : cs \in {"null", "true", "false"}}

NextSignUp ==
  \/ \E canAttempt \in BOOLEAN, passwordOk \in BOOLEAN : Submit(canAttempt, passwordOk)
  \/ \E reconnected \in BOOLEAN : ReconnectReturns(reconnected)
  \/ \E res \in {"server error", "error", "confirmation pending", "ok"} :
       SignUpReturns(res)
  \/ DelayEnds

SpecSignUp == InitSignUp /\ [][NextSignUp]_vars

\* ========================================================================
\* Claims
\* ========================================================================

\* C1: at most one call of processNextAuthEvent is between its start and
\* its finally block at any moment.
C1_OneDrainAtATime ==
  Cardinality({i \in DOMAIN tasks : tasks[i].kind = "drain"}) <= 1

\* C2: queue entries are processed in the order they were pushed (every
\* entry still queued was pushed after the one whose processing began last)
\* and one after the other (while an entry is being processed, load
\* included, no entry pushed before it is still being processed).
C2_ProcessedInOrder ==
  /\ \A k \in DOMAIN up.authEventQueueRef : up.authEventQueueRef[k].n > lastBegun
  /\ \A i, j \in DOMAIN tasks :
       (tasks[i].kind = "drain" /\ tasks[j].kind = "drain")
         => ~(tasks[i].ev.n < tasks[j].ev.n)

\* C3: a call of handleNext (forward) made while canContinue (canAdvance) is
\* false for the current section changes neither currentStep, nor the
\* aggregate with its completed_steps, nor the remote store.
C3_ForwardNeedsCanAdvance ==
  [][(HandleNext /\ ~canContinue(ux))
       => /\ ux'.mounted /\ ux'.currentStep = ux.currentStep
          /\ profileData' = profileData
          /\ remote' = remote
          /\ call' = Idle]_vars

\* C3 witness: handleNext has just been called on a section for which
\* canContinue is false.
C3_Witness ==
  /\ op.name = "handleNext" /\ call = Idle
  /\ ux.mounted /\ ux.hasAttemptedContinue /\ ~canContinue(ux)
  /\ ux.activeSection = "personal"

\* C4: a forward from a non-terminal section i marks section i complete,
\* then persists via save(), and ends with currentStep = i + 1: the save it
\* issues writes completed_steps with section i among them, and when the
\* handler has ended the section is marked and the index is i + 1.
C4_ForwardMarksSavesAdvances ==
  /\ (call.fn = "handleNext" /\ call.stage = "next")
       => includes(call.pd.completed_steps, SectionAt(call.step).id)
  /\ op.name = "handleNext.end"
       => /\ includes(log, "saveProfile")
          /\ includes(profileData.completed_steps, op.section)
          /\ ux.mounted /\ ux.currentStep = op.step + 1

\* C5: in a forward on the terminal section, onboarding_completed is set
\* before the final save is issued, that save sends the onboarding record
\* with completed = true, and the redirect to the dashboard comes last.
C5_TerminalForward ==
  op.name = "handleNext.redirect"
    => /\ log[Len(log)] = "goToDashboard"
       /\ includes(log, "completed: true")
       /\ \E i, j \in DOMAIN log :
            i < j /\ log[i] = "onboarding_completed" /\ log[j] = "saveProfile"
       /\ route = "/dashboard"

\* C6: an aggregate with onboarding_completed = true has the personal and
\* the roles section in completed_steps.
C6_CompletedHasRequiredSteps ==
  (profileData # Null /\ profileData.onboarding_completed)
    => /\ includes(profileData.completed_steps, "personal")
       /\ includes(profileData.completed_steps, "roles")

C9_OnboardingReachesDashboard ==
  (/\ ux.mounted /\ mode = "onboarding" /\ route = "/onboarding"
   /\ ux.activeSection = "personal"
   /\ remote.user_onboarding = Null
   /\ profileData # Null
   /\ validateAndNotify(profileData.full_name, profileData.email)
   /\ validateAndNotify(ux.fullName, ux.email))
    ~> (route = "/dashboard")

\* C10: on the personal section canContinue (canAdvance) is false while the
\* name is empty or the email has no '@', and is true after an update that
\* left name and email both valid.
C10_CanAdvanceOnPersonal ==
  (ux.mounted /\ call = Idle /\ ux.activeSection = "personal" /\ profileData # Null)
    => /\ (profileData.full_name = <<>> \/ ~includes(profileData.email, "@"))
            => ~canContinue(ux)
       /\ (/\ op.name = "handleChange"
           /\ validateAndNotify(profileData.full_name, profileData.email)
           /\ validateAndNotify(ux.fullName, ux.email))
            => canContinue(ux)

\* C11: on the roles section, a required section, canContinue (canAdvance)
\* is true if and only if at least one role is selected.
C11_CanAdvanceOnRoles ==
  (ux.mounted /\ call = Idle /\ ux.activeSection = "roles" /\ profileData # Null)
    => (canContinue(ux) <=> profileData.selected_roles # <<>>)

\* C12: a component that has just mounted (no handler has been called on it)
\* shows, in onboarding mode, the welcome section, or with welcome in
\* completed_steps the first section of the fixed order that is not in
\* completed_steps; in profile mode it shows the personal section.
C12_InitialSection ==
  (/\ ux.mounted /\ call = Idle /\ profileData # Null
   /\ op.name \in {"none", "reload", "handleNext.end", "handleSaveSection.end"})
    => IF mode = "onboarding"
       THEN IF includes(profileData.completed_steps, "welcome")
            THEN nextIncompleteIndex(profileData) # -1
                   => ux.currentStep = nextIncompleteIndex(profileData)
            ELSE ux.currentStep = 0 /\ ux.activeSection = "welcome"
       ELSE ux.activeSection = "personal"

\* C13: handleBack (back) leaves currentStep at i - 1 when called at i > 0
\* and unchanged when called at 0, starts no save and changes neither the
\* aggregate nor the remote store.
C13_BackDecrements ==
  [][HandleBack
       => /\ ux'.mounted
          /\ ux'.currentStep = IF ux.currentStep > 0 THEN ux.currentStep - 1
                               ELSE ux.currentStep
          /\ profileData' = profileData
          /\ remote' = remote
          /\ call' = Idle /\ saves' = saves]_vars

\* C14: when the three upserts of a saveProfile (save) have succeeded, the
\* remote rows hold the field values of the aggregate as it was when
\* saveProfile was called, an update made just before the call included,
\* and the onboarding row's completed is the aggregate's
\* onboarding_completed.
C14_SaveWritesAggregate ==
  (call # Idle /\ call.fn # "loadProfileData"
   /\ call.pc = "verify" /\ call.saveSuccessful)
    => /\ remote.profiles = profilePayload(profileData)
       /\ remote.user_preferences
       /\ remote.user_onboarding =
            [ selected_roles |-> profileData.selected_roles,
              completed_steps |-> profileData.completed_steps,
              completed |-> profileData.onboarding_completed ]

\* C19: a load in which the profiles fetch or the user_onboarding fetch
\* fails with an error other than record-not-found leaves the aggregate
\* empty.
C19_FailedFetchLeavesEmpty ==
  [][(LoadProfilesReturns(FALSE) \/ LoadOnboardingReturns(FALSE))
       => profileData' = Null]_vars

\* The tables saveProfile writes, in the order of its upserts.
Tables == <<"profiles", "user_preferences", "user_onboarding">>

\* The log holds the result of an upsert that failed.
SomeUpsertFailed == \E k \in DOMAIN Tables : includes(log, Outcome(Tables[k], FALSE))

\* The log holds a result of every one of the three upserts.
AllUpsertsReturned ==
  \A k \in DOMAIN Tables : \E ok \in BOOLEAN : includes(log, Outcome(Tables[k], ok))

\* The log holds the result of an upsert.
SomeUpsertReturned ==
  \E k \in DOMAIN Tables : \E ok \in BOOLEAN : includes(log, Outcome(Tables[k], ok))

\* C15 as stated: a saveProfile (save) that has returned has returned a
\* boolean.
C15_SaveReturnsBoolean ==
  (call = Idle /\ log # <<>>) => log[Len(log)] \in {"return true", "return false"}

\* C15, amended: saveProfile never raises.  Called with an aggregate it
\* runs its three upserts and returns false if at least one of them
\* failed, true if all three succeeded; called without an aggregate it
\* returns undefined and has not contacted the remote store.
C15_SaveReturns ==
  /\ (call # Idle /\ call.fn = "saveProfile") => call.pd # Null
  /\ (call = Idle /\ log # <<>>) =>
       IF SomeUpsertReturned
       THEN /\ AllUpsertsReturned
            /\ log[Len(log)] = IF SomeUpsertFailed THEN "return false"
                               ELSE "return true"
       ELSE /\ log = <<"saveProfile", "return undefined">>
            /\ op.name = "saveProfile" => profileData = Null

\* A saveProfile whose profiles upsert failed has returned false.
C15_Witness ==
  /\ call = Idle
  /\ op.name = "saveProfile.end"
  /\ includes(log, "profiles: error")
  /\ includes(log, "user_onboarding: ok")
  /\ log[Len(log)] = "return false"

\* The log of a saveProfile whose user_preferences upsert failed while
\* the profiles and the user_onboarding upserts succeeded.
PrefsOnlyFailed ==
  /\ includes(log, "profiles: ok")
  /\ includes(log, "user_preferences: error")
  /\ includes(log, "user_onboarding: ok")

\* C16: a failed upsert neither aborts nor rolls back a saveProfile (save):
\* every save runs all three upserts, and what a successful upsert wrote
\* is still in the remote store when the save returns.  When only the
\* user_preferences upsert failed, the save returns false, and a
\* loadProfileData (load) called after it has returned puts the values of
\* the two written rows into the aggregate.
C16_PartialSave ==
  /\ [](call # Idle /\ call.fn = "saveProfile" /\ call.pc = "verify"
          => /\ AllUpsertsReturned
             /\ includes(log, "profiles: ok")
                  => remote.profiles = profilePayload(call.pd)
             /\ includes(log, "user_onboarding: ok")
                  => remote.user_onboarding = onboardingPayload(call.pd, call.ioc)
             /\ PrefsOnlyFailed => ~call.saveSuccessful)
  /\ [](call = Idle /\ PrefsOnlyFailed => log[Len(log)] = "return false")
  /\ [][(/\ Load2OnboardingReturns(TRUE)
         /\ load2.afterSave /\ op.name = "loadProfileData"
         /\ PrefsOnlyFailed)
          => /\ profileData' # Null
             /\ profileData'.full_name = remote.profiles.full_name
             /\ profileData'.email = remote.profiles.email
             /\ profileData'.selected_roles = remote.user_onboarding.selected_roles
             /\ profileData'.completed_steps = remote.user_onboarding.completed_steps
             /\ profileData'.onboarding_completed = remote.user_onboarding.completed]_vars

\* After a save in which only the user_preferences upsert failed has
\* returned false, a load has ended and the aggregate holds the name and
\* the roles that the save wrote.
C16_Witness ==
  /\ call = Idle /\ load2 = Idle
  /\ op.name = "loadProfileData.end"
  /\ PrefsOnlyFailed
  /\ log[Len(log)] = "return false"
  /\ profileData # Null
  /\ profileData.full_name = <<"A", "d">>
  /\ remote.profiles # Null
  /\ remote.profiles.full_name = <<"A", "d">>
  /\ profileData.selected_roles = <<"frontend">>
  /\ remote.user_onboarding.selected_roles = <<"frontend">>

\* A step of a saveProfile call: the call itself or the return of one of
\* its requests.
SaveStep ==
  \/ StoreSave
  \/ \E ok \in BOOLEAN : SaveProfilesReturns(ok)
  \/ \E ok \in BOOLEAN : SavePreferencesReturns(ok)
  \/ \E ok \in BOOLEAN : SaveOnboardingReturns(ok)
  \/ SaveVerifyReturns

\* C17: no step of a saveProfile (save) call changes what consumers read
\* from the context: the aggregate, isLoading and isOnboardingComplete
\* are the same after the step as before it.
C17_SaveNoSideEffect ==
  [][SaveStep
       => /\ profileData' = profileData
          /\ isLoading' = isLoading
          /\ isOnboardingComplete(isLoading', profileData')
               = isOnboardingComplete(isLoading, profileData)]_vars

C20_LoadsCoalesce ==
  [][(/\ Load2OnboardingReturns(TRUE)
      /\ load2.overlaps
      /\ call = Idle)
       => profileData' = combinedData(idp, remote.profiles, remote.user_onboarding)]_vars

\* The React state of UserProvider (what its context value is built from).
ProviderState(s) ==
  <<s.user, s.session, s.profile, s.roles, s.permissions, s.isLoading>>

\* Suspended call i was made before the effect's last cleanup.
MadeBeforeUnmount(i) == ~up.mountedRef \/ tasks[i].born < remounts

\* The remote call that suspended call i awaits returns.
RemoteCallReturns(i) ==
  \/ GetSessionReturns(i)
  \/ GetSessionThrows(i)
  \/ \E res \in {"row", "PGRST116", "error", "timeout"} : ProfileFetchReturns(i, res)
  \/ \E ok \in BOOLEAN : ProfileInsertReturns(i, ok)
  \/ \E res \in {"error", "empty", FetchedUser, FetchedAdmin} : RolesFetchReturns(i, res)
  \/ \E ok \in BOOLEAN : RoleLookupReturns(i, ok)
  \/ RoleAssignReturns(i)

\* C22: when a remote call returns that was made before the provider's
\* effect was cleaned up (unmount), the provider's state stays as it is,
\* whether the effect has run again meanwhile (mount) or not.
C22_ResultDiscarded ==
  [][\A i \in DOMAIN tasks :
       (MadeBeforeUnmount(i) /\ RemoteCallReturns(i))
         => ProviderState(up') = ProviderState(up)]_vars

\* Nothing of UserProvider is running or waiting: the queue is empty, no
\* event is being processed, no loadUserData is running and no call is
\* suspended.
AuthQuiescent ==
  /\ up.authEventQueueRef = <<>>
  /\ ~up.processingAuthEventRef
  /\ ~up.loadingRef
  /\ tasks = <<>>

\* C27: when the provider, mounted all along, is quiescent, its state fits
\* the last auth event: with no user there is no profile and there are no
\* roles and no permissions, and a profile that is held is the profile of
\* the user that is held.
C27_StateFitsLastEvent ==
  (AuthQuiescent /\ up.mountedRef /\ remounts = 0)
    => /\ up.user = None
            => up.profile = None /\ up.roles = NoRoles /\ up.permissions = {}
       /\ up.profile # None => up.profile = up.user

\* A suspended call of UserProvider goes on: the remote call it awaits
\* returns, or its microtask runs.
AuthCallReturns ==
  \E i \in DOMAIN tasks : RemoteCallReturns(i) \/ MicrotaskResumes(i)

\* The steps of a UserProvider whose effect is never cleaned up.
NextMounted ==
  \/ AuthCallReturns
  \/ \E kind \in AuthEventKinds, u \in Uids \cup {None} : AuthNotify(kind, u)
  \/ \E i \in DOMAIN tasks : SafetyTimeout(i)
  \/ RefreshUserData

\* UserProvider mounted all along, with every remote call returning at
\* some time.
SpecAuthFair ==
  /\ InitAuth
  /\ [][NextMounted]_vars
  /\ WF_vars(AuthCallReturns)

\* The queue is empty and no event is being processed.
Drained == up.authEventQueueRef = <<>> /\ ~up.processingAuthEventRef

\* C28: in a provider that stays mounted, with every remote call
\* returning, every event that is pushed on the queue begins to be
\* processed, and from any state a state is reached in which the queue is
\* empty and the processing flag is false.
C28_QueueDrains ==
  /\ pushed > lastBegun ~> lastBegun = pushed
  /\ ~Drained ~> Drained

\* Two events were pushed in a provider that stayed mounted, both have been
\* processed and nothing is running.
C28_Witness ==
  /\ up.mountedRef /\ remounts = 0
  /\ pushed = 2 /\ lastBegun = 2
  /\ Drained
  /\ tasks = <<>>

\* C24: completeStep(step) makes no remote call and writes nothing to the
\* remote store, and it appends step to completed_steps only when the list
\* does not have it: called twice in a row, or again when the list has
\* step, it lengthens the list by one in all, not by two.
C24_CompleteStepIdempotent ==
  [][\A step \in StoreSteps, twice \in BOOLEAN :
       StoreCompleteStep(step, twice)
         => /\ remote' = remote /\ call' = call /\ load2' = load2
            /\ IF profileData = Null THEN profileData' = Null
               ELSE IF includes(profileData.completed_steps, step)
               THEN profileData' = profileData
               ELSE /\ profileData'.completed_steps
                         = Append(profileData.completed_steps, step)
                    /\ Len(profileData'.completed_steps)
                         = Len(profileData.completed_steps) + 1
                    /\ \A f \in DOMAIN profileData \ {"completed_steps"} :
                         profileData'[f] = profileData[f]]_vars

\* completeStep was called twice in a row for a step the list did not
\* have: the list has it once, and the remote store has no row.
C24_Witness ==
  /\ op.name = "completeStep.twice"
  /\ profileData # Null
  /\ profileData.completed_steps = <<"welcome", "personal", "roles">>
  /\ remote.user_onboarding.completed_steps = <<"welcome", "personal">>
  /\ saves = 0

\* C25: when a handler calls updateProfile(d1) and then updateProfile(d2)
\* with other fields, while an aggregate is held, the aggregate afterwards
\* has the values of d1 and the values of d2.
C25_BothUpdatesTakeEffect ==
  [][\A p \in StoreUpdatePairs :
       (profileData # Null /\ StoreUpdateTwice(p[1], p[2]))
         => /\ \A f \in DOMAIN p[1] : profileData'[f] = p[1][f]
            /\ \A f \in DOMAIN p[2] : profileData'[f] = p[2][f]]_vars

\* The mode a rendered section is in.
SectionMode == currentModeOf(tiered.forceMode, tiered.themeMode)

\* C23: of a rendered section, in onboarding mode exactly the ESSENTIAL
\* fields are visible, a field with an undefined or unknown tier being
\* hidden like an IMPORTANT or COMPREHENSIVE one; in profile mode every
\* field is visible.
C23_VisibleByTier ==
  tiered.rendered =>
    \A k \in DOMAIN tiered.fields :
      /\ SectionMode = "onboarding"
           => (k \in tiered.visible <=> tiered.fields[k] = ESSENTIAL)
      /\ (SectionMode = "onboarding"
          /\ tiered.fields[k] \in {UndefinedTier, UnknownTier, COMPREHENSIVE})
           => k \notin tiered.visible
      /\ SectionMode = "profile" => k \in tiered.visible

\* A section rendered in onboarding mode with an essential field, a field
\* without tier and a field of an unknown tier shows the first only.
C23_Witness ==
  /\ tiered.rendered
  /\ SectionMode = "onboarding"
  /\ tiered.fields = <<ESSENTIAL, UndefinedTier, UnknownTier>>
  /\ tiered.visible = {1}

\* C30: for one submission handleSubmit makes the first signUp request and
\* at most RetryLimit automatic retries; when the last of them has failed
\* with a server error no request is outstanding or scheduled, the error
\* message is shown and loading is false.
C30_RetriesAtMostTwice ==
  signup.shown
    => /\ signup.requests <= 1 + RetryLimit
       /\ (signup.requests = 1 + RetryLimit /\ signup.pc # "signUp")
            => /\ signup.pc = "idle"
               /\ ~signup.loading
               /\ signup.error # None \/ signup.emailSent \/ signup.left

\* C29: persisted onboarding progress never regresses: a save that writes
\* the user_onboarding row writes a completed_steps holding every section
\* id the row held before, and never completed = false over completed =
\* true.
C29_ProgressNeverRegresses ==
  [][(SaveOnboardingReturns(TRUE) /\ remote.user_onboarding # Null)
       => /\ \A k \in DOMAIN remote.user_onboarding.completed_steps :
               includes(remote'.user_onboarding.completed_steps,
                        remote.user_onboarding.completed_steps[k])
          /\ remote.user_onboarding.completed
               => remote'.user_onboarding.completed]_vars

\* A session on the dashboard: account u1 is signed in, its aggregate is
\* loaded (ProfileProvider loads in its mount effect only, part_004:169-171,
\* and is mounted above the routes, App.tsx:40-45), and the providers stay
\* mounted while identities sign out and in.  Every other account is new:
\* it has no rows in the remote store.
InitSession ==
  /\ SignedIn
  /\ remote \in [profiles : InitialProfileRows, user_preferences : {FALSE},
                 user_onboarding : InitialOnboardingRows]
  /\ profileData = combinedData("u1", remote.profiles, remote.user_onboarding)
  /\ isLoading = FALSE
  /\ mode = "profile"
  /\ route = "/dashboard"
  /\ ux = Unmounted
  /\ call = Idle
  /\ op = NoOp
  /\ log = <<>>
  /\ reloads = 0
  /\ saves = 0
  /\ load2 = Idle
  /\ PagesAtRest

NextSession ==
  \/ \E kind \in {"SIGNED_IN", "SIGNED_OUT"}, u \in Uids \cup {None} :
       SessionNotify(kind, u)
  \/ AuthCallReturns
  \/ \E i \in DOMAIN tasks : SafetyTimeout(i)
  \/ PrivateRouteNavigates
  \/ SignInRedirects
  \/ RedirectTimerFires
  \/ StoreSave
  \/ \E ok \in BOOLEAN : SaveProfilesReturns(ok)
  \/ \E ok \in BOOLEAN : SavePreferencesReturns(ok)
  \/ \E ok \in BOOLEAN : SaveOnboardingReturns(ok)
  \/ SaveVerifyReturns

SpecSession == InitSession /\ [][NextSession]_vars

\* The aggregate belongs to the identity that is signed in.
OwnAggregate == profileData # Null => profileData.id = idp

\* C26: whenever the store holds a non-empty aggregate, its id is the id of
\* the identity that is signed in now, whatever sign-ins and sign-outs
\* came before; and the aggregate a running save writes is that
\* identity's.
C26_AggregateOfSignedIn ==
  /\ OwnAggregate
  /\ call.fn \in Savers => call.pd.id = idp

\* The onboarding of the signed-in identity is complete, as far as the
\* store knows: the aggregate is that identity's and isOnboardingComplete
\* holds of it.
SessionOnboardingComplete ==
  /\ profileData # Null
  /\ profileData.id = idp
  /\ isOnboardingComplete(isLoading, profileData)

\* C21: what a protected route wraps is rendered only while an identity is
\* signed in, and the dashboard's content only while the onboarding of
\* that identity is complete.
C21_GuardedContent ==
  /\ Screen \in {"children", "content"} => idp # None
  /\ Screen = "content" => SessionOnboardingComplete

====
